---- MODULE Spec2Model ----
(***************************************************************************)
(* Model of the book/page navigation and leaderboard of src/main.rs        *)
(* (struct TextSystem and its per-frame update).                           *)
(*                                                                         *)
(* Conventions.  A Rust Option<T> is a sequence of length 0 (None) or 1    *)
(* (Some).  Vec indices are 0-based as in the source: element i of a Vec v *)
(* is v[i + 1].  A HashMap is the sequence of its entries in the order its *)
(* iterator yields them; that order is fixed when the map is built.        *)
(***************************************************************************)
EXTENDS Integers, Sequences, FiniteSets, TLC

(***************************************************************************)
(* Bounds of the model.                                                    *)
(***************************************************************************)
\* Total number of frames with a matched button explored in one session.
MaxPresses == 13

(***************************************************************************)
(* Option helpers.                                                         *)
(***************************************************************************)
None == <<>>
Some(x) == <<x>>
IsSome(o) == Len(o) = 1
IsNone(o) == Len(o) = 0
Unwrap(o) == o[1]

(***************************************************************************)
(* Content model: ButtonAction, Button, Page, Book.                        *)
(***************************************************************************)
NextPage == [type |-> "NextPage", page |-> ""]
JumpToPage(n) == [type |-> "JumpToPage", page |-> n]
JumpToEnd == [type |-> "JumpToEnd", page |-> ""]

\* One entry of a HashMap<String, Button>; the button's text is not modelled.
Button(key, action) == [key |-> key, action |-> action]

Page(name, is_final, buttons) ==
    [name |-> name, is_final |-> is_final, buttons |-> buttons]

Book(pages, default_buttons) ==
    [pages |-> pages, default_buttons |-> default_buttons]

\* The keys main.rs tests with just_pressed, by the button name they serve.
KeyNames == {"space", "y", "n", "m", "1", "2", "3"}

\* The keys the keyboard of the model can press in a frame.
PressableKeys == {"space", "y", "n"}

\* Retention cap of the score store.
MaxScores == 10

(***************************************************************************)
(* The content files (text.json) the session can be started with, as the   *)
(* documents serde_json reads: maps are listed in file order.              *)
(***************************************************************************)
\* The two-page example: an intro page, then a final page.
ScenarioBook ==
    Book(<< Page(Some("intro"), FALSE, Some(<< Button("space", NextPage) >>)),
            Page(Some("end"), TRUE, Some(<< Button("space", NextPage) >>)) >>,
         << >>)

\* A book without pages.
EmptyBook == Book(<< >>, << Button("space", NextPage) >>)

\* Default buttons, an unnamed page, an unresolvable jump, a name used twice.
BranchBook ==
    Book(<< Page(Some("start"), FALSE, None),
            Page(None, FALSE, Some(<< Button("space", JumpToPage("twin")),
                                      Button("y", JumpToPage("nowhere")) >>)),
            Page(Some("twin"), TRUE, Some(<< Button("space", NextPage),
                                             Button("y", JumpToPage("start")) >>)),
            Page(Some("twin"), FALSE, Some(<< Button("space", NextPage) >>)) >>,
         << Button("space", NextPage), Button("n", JumpToEnd) >>)

\* A final page in the middle, a page with an empty button map, and a last
\* page that is not final and from which a default button jumps back to the
\* first page.
EndingsBook ==
    Book(<< Page(Some("home"), FALSE, Some(<< Button("space", NextPage),
                                      Button("y", JumpToPage("last")),
                                      Button("n", JumpToPage("void")) >>)),
            Page(Some("fin"), TRUE, Some(<< Button("space", JumpToPage("nowhere")),
                                            Button("y", JumpToEnd) >>)),
            Page(Some("void"), FALSE, Some(<< >>)),
            Page(Some("last"), FALSE, None) >>,
         << Button("space", NextPage), Button("y", JumpToPage("home")) >>)

Contents == {ScenarioBook, EmptyBook, BranchBook, EndingsBook}

(***************************************************************************)
(* serde_json::from_str into Book: every HashMap of the document is built  *)
(* with its own hasher, so its iteration order is any order of its         *)
(* entries, fixed from then on.                                            *)
(***************************************************************************)
\* All orders in which a map with the entries of m can iterate.
Shuffles(m) ==
    LET n == Len(m)
        Bijections == { f \in [1..n -> 1..n] : \A i, j \in 1..n : f[i] = f[j] => i = j }
    IN  { [i \in 1..n |-> m[f[i]]] : f \in Bijections }

ParsePage(p) ==
    IF IsNone(p.buttons)
    THEN {p}
    ELSE { [p EXCEPT !.buttons = Some(m)] : m \in Shuffles(Unwrap(p.buttons)) }

RECURSIVE ParsePages(_)
ParsePages(ps) ==
    IF ps = << >>
    THEN { << >> }
    ELSE { << p >> \o rest : p \in ParsePage(Head(ps)), rest \in ParsePages(Tail(ps)) }

ParseBook(json) ==
    { Book(ps, d) : ps \in ParsePages(json.pages), d \in Shuffles(json.default_buttons) }

(***************************************************************************)
(* State.  The fields of the TextSystem component, the asset store, and    *)
(* two history variables.                                                  *)
(***************************************************************************)
VARIABLES
    text_assets,    \* Assets<TextAsset>: None until text.json is available
    book,           \* Option<Book>
    root_node,      \* Option<Entity>: the UI tree currently spawned
    page_index,     \* usize
    page_read,      \* u32
    scores,         \* Vec<Score>
    is_scoreboard,  \* bool
    panicked,       \* the update system panicked: the application is gone
    recorded        \* history: every Score pushed so far, in push order

vars == << text_assets, book, root_node, page_index, page_read, scores,
           is_scoreboard, panicked, recorded >>

\* The TextSystem as one value, for the methods below.
Self ==
    [book |-> book, root_node |-> root_node, page_index |-> page_index,
     page_read |-> page_read, scores |-> scores, is_scoreboard |-> is_scoreboard,
     panicked |-> panicked, recorded |-> recorded]

Score(date, pages) == [date |-> date, page_read |-> pages]

\* What a spawned root entity shows: a page of the book, or the leaderboard
\* with its score lines from top to bottom.
PageEntity(i) == [kind |-> "page", page |-> i, rows |-> << >>]
LeaderboardEntity(rows) == [kind |-> "leaderboard", page |-> 0, rows |-> rows]

(***************************************************************************)
(* TextSystem methods.  Each takes the TextSystem and returns it as the    *)
(* method leaves it.                                                       *)
(***************************************************************************)
\* Variant: the accessor also looks at the mode and hides the page while the
\* scoreboard is shown.
current_page_reading_only(ts) ==
    IF IsSome(ts.book) /\ ~ts.is_scoreboard /\ ts.page_index < Len(Unwrap(ts.book).pages)
    THEN Some(Unwrap(ts.book).pages[ts.page_index + 1])
    ELSE None

\* fn current_page(&self) -> Option<&Page>
current_page(ts) ==
    IF IsSome(ts.book) /\ ts.page_index < Len(Unwrap(ts.book).pages)
    THEN Some(Unwrap(ts.book).pages[ts.page_index + 1])
    ELSE None

\* fn page_by_name(&self, name) -> Option<usize>: the loop over 0..pages.len(),
\* from index i on; it returns at the first page whose name is Some(name).
RECURSIVE page_scan(_, _, _)
page_scan(pages, i, name) ==
    IF i >= Len(pages)
    THEN None
    ELSE IF IsSome(pages[i + 1].name) /\ Unwrap(pages[i + 1].name) = name
         THEN Some(i)
         ELSE page_scan(pages, i + 1, name)

\* Variant: the loop does not return at the first hit and keeps the last one.
RECURSIVE page_scan_last(_, _, _, _)
page_scan_last(pages, i, name, found) ==
    IF i >= Len(pages)
    THEN found
    ELSE page_scan_last(pages, i + 1, name,
                        IF IsSome(pages[i + 1].name) /\ Unwrap(pages[i + 1].name) = name
                        THEN Some(i)
                        ELSE found)

page_by_name_last(ts, name) ==
    IF IsSome(ts.book) THEN page_scan_last(Unwrap(ts.book).pages, 0, name, None) ELSE None

page_by_name(ts, name) ==
    IF IsSome(ts.book) THEN page_scan(Unwrap(ts.book).pages, 0, name) ELSE None

\* fn clear(&mut self, commands)
clear(ts) == [ts EXCEPT !.root_node = None]

\* fn setup_page(&mut self, commands): indexing pages[page_index] panics when
\* the index is out of range, as does unwrapping a missing book.
setup_page(ts) ==
    LET c == clear(ts)
    IN  IF IsNone(c.book) \/ c.page_index >= Len(Unwrap(c.book).pages)
        THEN [c EXCEPT !.panicked = TRUE]
        ELSE [c EXCEPT !.root_node = Some(PageEntity(c.page_index))]

\* fn move_next(&mut self, commands)
move_next(ts) ==
    setup_page([clear(ts) EXCEPT !.page_index = ts.page_index + 1])

\* Variant: a name that resolves to no page falls back to the first page.
jump_to_or_first(ts, page_name) ==
    LET c == clear(ts)
        target == page_by_name(c, page_name)
    IN  setup_page([c EXCEPT !.page_index = IF IsSome(target) THEN Unwrap(target) ELSE 0])

\* fn jump_to(&mut self, commands, page_name)
jump_to(ts, page_name) ==
    LET c == clear(ts)
        target == page_by_name(c, page_name)
    IN  IF IsSome(target)
        THEN setup_page([c EXCEPT !.page_index = Unwrap(target)])
        ELSE c

\* Variant: the loop drops the newest entry (pop) instead of the oldest.
RECURSIVE retain_first(_)
retain_first(v) ==
    IF Len(v) >= MaxScores THEN retain_first(SubSeq(v, 1, Len(v) - 1)) ELSE v

\* The `while self.scores.len() >= 10 { self.scores.remove(0); }` loop.
RECURSIVE retain_last(_)
retain_last(v) ==
    IF Len(v) >= MaxScores THEN retain_last(Tail(v)) ELSE v

\* Variant: the score is pushed first and the store trimmed to 10 afterwards.
RECURSIVE trim_to_cap(_)
trim_to_cap(v) ==
    IF Len(v) > MaxScores THEN trim_to_cap(Tail(v)) ELSE v

scores_steps_push_first(v, score) ==
    << v, Append(v, score), trim_to_cap(Append(v, score)) >>

\* The values self.scores takes in spawn_leaderboard, in program order: on
\* entry, after the eviction loop, after the push.
scores_steps(v, score) ==
    << v, retain_last(v), Append(retain_last(v), score) >>

\* Variant: an unstable order, where a score also goes in front of the scores
\* it ties with.
sorts_before_or_ties(a, b) == a.page_read >= b.page_read

\* The comparator of sort_by, |a, b| b.page_read.partial_cmp(&a.page_read):
\* a sorts strictly before b when it has more pages read.
sorts_before(a, b) == a.page_read > b.page_read

\* Vec::sort_by is a stable sort: x goes in front of the first element it
\* sorts strictly before, so behind every element it compares equal to.
RECURSIVE insert_sorted(_, _)
insert_sorted(v, x) ==
    IF v = << >>
    THEN << x >>
    ELSE IF sorts_before(x, Head(v))
         THEN << x >> \o v
         ELSE << Head(v) >> \o insert_sorted(Tail(v), x)

RECURSIVE sort_by(_)
sort_by(v) ==
    IF v = << >>
    THEN << >>
    ELSE insert_sorted(sort_by(SubSeq(v, 1, Len(v) - 1)), v[Len(v)])

\* Utc::now() at a push: the scores are told apart by the order of their
\* timestamps, so the timestamp is the ordinal of the push.
utc_now(ts) == Len(ts.recorded) + 1

\* Variant: the store itself is sorted, not a clone of it.
spawn_leaderboard_sort_in_place(ts) ==
    LET c == clear(ts)
        score == Score(utc_now(c), c.page_read)
        steps == scores_steps(c.scores, score)
        pushed == steps[Len(steps)]
        sorted_scores == sort_by(pushed)
    IN  [c EXCEPT !.scores = sorted_scores,
                  !.recorded = Append(c.recorded, score),
                  !.is_scoreboard = TRUE,
                  !.root_node = Some(LeaderboardEntity(sorted_scores))]

\* fn spawn_leaderboard(&mut self, commands).  The image lookup
\* buttons.get("space").unwrap() cannot fail: setup() always inserts "space".
spawn_leaderboard(ts) ==
    LET c == clear(ts)
        score == Score(utc_now(c), c.page_read)
        steps == scores_steps(c.scores, score)
        pushed == steps[Len(steps)]
        sorted_scores == sort_by(pushed)
    IN  [c EXCEPT !.scores = pushed,
                  !.recorded = Append(c.recorded, score),
                  !.is_scoreboard = TRUE,
                  !.root_node = Some(LeaderboardEntity(sorted_scores))]

(***************************************************************************)
(* fn update(&mut self, commands, text_assets, keyboard_input)             *)
(***************************************************************************)
\* keyboard_input.just_pressed(code), with the key codes called by the name
\* of the button they serve: `keys` is the set pressed in this frame.
just_pressed(keys, name) == name \in keys

\* Variant: a copy-paste slip in the chain, the "y" branch tests KeyCode::N.
button_matches_wrong_key(keys, name) ==
    name \in KeyNames /\ just_pressed(keys, IF name = "y" THEN "n" ELSE name)

\* One round of the if / else-if chain in the loop over the buttons.
button_matches(keys, name) == name \in KeyNames /\ just_pressed(keys, name)

\* Variant: the loop breaks at the first matching entry.
RECURSIVE scan_buttons_first(_, _, _)
scan_buttons_first(buttons, keys, action) ==
    IF buttons = << >>
    THEN action
    ELSE IF button_matches(keys, Head(buttons).key)
         THEN Some(Head(buttons).action)
         ELSE scan_buttons_first(Tail(buttons), keys, action)

\* The loop `for (name, button) in buttons`: it runs over every entry and
\* each matching entry overwrites `action`.
RECURSIVE scan_buttons(_, _, _)
scan_buttons(buttons, keys, action) ==
    IF buttons = << >>
    THEN action
    ELSE scan_buttons(Tail(buttons), keys,
                      IF button_matches(keys, Head(buttons).key)
                      THEN Some(Head(buttons).action)
                      ELSE action)

\* Variant: the book's default buttons are consulted after the page's own.
resolved_buttons_with_defaults(ts, page) ==
    IF IsSome(page.buttons)
    THEN Unwrap(page.buttons) \o Unwrap(ts.book).default_buttons
    ELSE Unwrap(ts.book).default_buttons

\* The button map input is resolved against: the page's own, else the book's.
resolved_buttons(ts, page) ==
    IF IsSome(page.buttons) THEN Unwrap(page.buttons) ELSE Unwrap(ts.book).default_buttons

\* `let mut action = None; for ... { }` for the current page.
resolved_action(ts, keys) ==
    IF IsSome(current_page(ts))
    THEN scan_buttons(resolved_buttons(ts, Unwrap(current_page(ts))), keys, None)
    ELSE None

\* Variant: the load sets the first page up without the has_page test.
load_step_always_setup(ts, assets, parsed) ==
    IF IsNone(ts.book) /\ IsSome(assets)
    THEN LET c == clear(ts)
             loaded == [c EXCEPT !.book = Some(parsed), !.page_index = 0]
         IN  setup_page(loaded)
    ELSE ts

\* Variant: the load starts the book at its second page (a 1-based first
\* index).
load_step_index_one(ts, assets, parsed) ==
    IF IsNone(ts.book) /\ IsSome(assets)
    THEN LET c == clear(ts)
             has_page == parsed.pages # << >>
             loaded == [c EXCEPT !.book = Some(parsed), !.page_index = 1]
         IN  IF has_page THEN setup_page(loaded) ELSE loaded
    ELSE ts

\* Variant: the load is not guarded by book.is_none(); every frame in which
\* the asset is available sets the book up again from its first page.
load_step_every_frame(ts, assets, parsed) ==
    IF IsSome(assets)
    THEN LET c == clear(ts)
             kept == IF IsNone(ts.book) THEN parsed ELSE Unwrap(ts.book)
             has_page == kept.pages # << >>
             loaded == [c EXCEPT !.book = Some(kept), !.page_index = 0]
         IN  IF has_page THEN setup_page(loaded) ELSE loaded
    ELSE ts

\* Lines 163-174: set the book up once the text asset is loaded; `parsed` is
\* the Book serde_json builds from it.
load_step(ts, assets, parsed) ==
    IF IsNone(ts.book) /\ IsSome(assets)
    THEN LET c == clear(ts)
             has_page == parsed.pages # << >>
             loaded == [c EXCEPT !.book = Some(parsed), !.page_index = 0]
         IN  IF has_page THEN setup_page(loaded) ELSE loaded
    ELSE ts

\* Variant: the press is counted after the action has been applied.
apply_action_count_after(ts, page, matched) ==
    LET action == IF page.is_final THEN JumpToEnd ELSE matched
        applied == CASE action.type = "NextPage" -> move_next(ts)
                     [] action.type = "JumpToPage" -> jump_to(ts, action.page)
                     [] action.type = "JumpToEnd" -> spawn_leaderboard(ts)
    IN  [applied EXCEPT !.page_read = applied.page_read + 1]

\* Variant: no override on a final page; the button's own action is applied.
apply_action_no_override(ts, page, matched) ==
    LET counted == [ts EXCEPT !.page_read = ts.page_read + 1]
    IN  CASE matched.type = "NextPage" -> move_next(counted)
          [] matched.type = "JumpToPage" -> jump_to(counted, matched.page)
          [] matched.type = "JumpToEnd" -> spawn_leaderboard(counted)

\* Lines 219-231: apply the action a matched button resolved to.
apply_action(ts, page, matched) ==
    LET action == IF page.is_final THEN JumpToEnd ELSE matched
        counted == [ts EXCEPT !.page_read = ts.page_read + 1]
    IN  CASE action.type = "NextPage" -> move_next(counted)
          [] action.type = "JumpToPage" -> jump_to(counted, action.page)
          [] action.type = "JumpToEnd" -> spawn_leaderboard(counted)

\* Variant: the action is applied inside the loop, once per matching entry.
RECURSIVE apply_each_match(_, _, _)
apply_each_match(ts, buttons, keys) ==
    IF buttons = << >>
    THEN ts
    ELSE apply_each_match(
            IF /\ button_matches(keys, Head(buttons).key)
               /\ ~ts.is_scoreboard /\ ~ts.panicked /\ IsSome(current_page(ts))
            THEN apply_action(ts, Unwrap(current_page(ts)), Head(buttons).action)
            ELSE ts,
            Tail(buttons), keys)

handle_input_each_match(ts, keys) ==
    IF ts.is_scoreboard
    THEN IF just_pressed(keys, "space")
         THEN setup_page([clear(ts) EXCEPT !.page_index = 0,
                                           !.is_scoreboard = FALSE,
                                           !.page_read = 0])
         ELSE ts
    ELSE IF IsSome(current_page(ts))
         THEN apply_each_match(ts, resolved_buttons(ts, Unwrap(current_page(ts))), keys)
         ELSE ts

\* Variant: any pressed key restarts from the scoreboard, not only space.
handle_input_any_key(ts, keys) ==
    IF ts.is_scoreboard
    THEN IF keys # {}
         THEN setup_page([clear(ts) EXCEPT !.page_index = 0,
                                           !.is_scoreboard = FALSE,
                                           !.page_read = 0])
         ELSE ts
    ELSE IF IsSome(current_page(ts)) /\ IsSome(resolved_action(ts, keys))
         THEN apply_action(ts, Unwrap(current_page(ts)), Unwrap(resolved_action(ts, keys)))
         ELSE ts

\* Variant: the restart keeps the page_read of the finished run.
handle_input_keep_count(ts, keys) ==
    IF ts.is_scoreboard
    THEN IF just_pressed(keys, "space")
         THEN setup_page([clear(ts) EXCEPT !.page_index = 0,
                                           !.is_scoreboard = FALSE])
         ELSE ts
    ELSE IF IsSome(current_page(ts)) /\ IsSome(resolved_action(ts, keys))
         THEN apply_action(ts, Unwrap(current_page(ts)), Unwrap(resolved_action(ts, keys)))
         ELSE ts

\* Variant: the restart also starts a fresh score store.
handle_input_clear_scores(ts, keys) ==
    IF ts.is_scoreboard
    THEN IF just_pressed(keys, "space")
         THEN setup_page([clear(ts) EXCEPT !.page_index = 0,
                                           !.is_scoreboard = FALSE,
                                           !.page_read = 0,
                                           !.scores = << >>])
         ELSE ts
    ELSE IF IsSome(current_page(ts)) /\ IsSome(resolved_action(ts, keys))
         THEN apply_action(ts, Unwrap(current_page(ts)), Unwrap(resolved_action(ts, keys)))
         ELSE ts

\* Variant: two separate `if`s instead of if / else-if; the frame that
\* restarts goes on into the Reading branch with the same keys.
handle_input_fall_through(ts, keys) ==
    LET restarted ==
            IF ts.is_scoreboard /\ just_pressed(keys, "space")
            THEN setup_page([clear(ts) EXCEPT !.page_index = 0,
                                              !.is_scoreboard = FALSE,
                                              !.page_read = 0])
            ELSE ts
    IN  IF /\ ~restarted.is_scoreboard /\ ~restarted.panicked
           /\ IsSome(current_page(restarted)) /\ IsSome(resolved_action(restarted, keys))
        THEN apply_action(restarted, Unwrap(current_page(restarted)),
                          Unwrap(resolved_action(restarted, keys)))
        ELSE restarted

\* Lines 176-232: handle inputs.
handle_input(ts, keys) ==
    IF ts.is_scoreboard
    THEN IF just_pressed(keys, "space")
         THEN setup_page([clear(ts) EXCEPT !.page_index = 0,
                                           !.is_scoreboard = FALSE,
                                           !.page_read = 0])
         ELSE ts
    ELSE IF IsSome(current_page(ts)) /\ IsSome(resolved_action(ts, keys))
         THEN apply_action(ts, Unwrap(current_page(ts)), Unwrap(resolved_action(ts, keys)))
         ELSE ts

update(ts, assets, parsed, keys) ==
    handle_input(load_step(ts, assets, parsed), keys)

(***************************************************************************)
(* The state machine.                                                      *)
(***************************************************************************)
\* Variant: the default of is_scoreboard is true, the session starts on the
\* scoreboard.
Init_on_scoreboard ==
    /\ text_assets = None
    /\ book = None
    /\ root_node = None
    /\ page_index = 0
    /\ page_read = 0
    /\ scores = << >>
    /\ is_scoreboard = TRUE
    /\ panicked = FALSE
    /\ recorded = << >>

\* TextSystem::default() through TextSystem::new(); text.json not loaded yet.
Init ==
    /\ text_assets = None
    /\ book = None
    /\ root_node = None
    /\ page_index = 0
    /\ page_read = 0
    /\ scores = << >>
    /\ is_scoreboard = FALSE
    /\ panicked = FALSE
    /\ recorded = << >>

\* The asset server finishes loading text.json (asset_server.load in setup).
AssetLoaded ==
    /\ ~panicked
    /\ text_assets = None
    /\ \E json \in Contents : text_assets' = Some(json)
    /\ UNCHANGED << book, root_node, page_index, page_read, scores,
                    is_scoreboard, panicked, recorded >>

\* Matched presses of the session so far: those of the finished runs and
\* those of the run in progress.
RECURSIVE SumRead(_)
SumRead(v) == IF v = << >> THEN 0 ELSE Head(v).page_read + SumRead(Tail(v))

TotalRead == SumRead(recorded) + (IF is_scoreboard THEN 0 ELSE page_read)

\* The books the load step of this frame can build.
Parses ==
    IF IsNone(book) /\ IsSome(text_assets)
    THEN ParseBook(Unwrap(text_assets))
    ELSE {Book(<< >>, << >>)}

\* Does this frame count a press (reach line 224)?
CountsPress(parsed, keys) ==
    LET ts == load_step(Self, text_assets, parsed)
    IN  ~ts.is_scoreboard /\ IsSome(resolved_action(ts, keys))

\* One frame of the `update` system with the keys `keys` just pressed.
UpdateWith(parsed, keys) ==
    LET ts == update(Self, text_assets, parsed, keys)
    IN  /\ book' = ts.book
        /\ root_node' = ts.root_node
        /\ page_index' = ts.page_index
        /\ page_read' = ts.page_read
        /\ scores' = ts.scores
        /\ is_scoreboard' = ts.is_scoreboard
        /\ panicked' = ts.panicked
        /\ recorded' = ts.recorded
        /\ UNCHANGED text_assets

Update ==
    /\ ~panicked
    /\ \E parsed \in Parses, keys \in SUBSET PressableKeys :
          /\ CountsPress(parsed, keys) => TotalRead < MaxPresses
          /\ UpdateWith(parsed, keys)

Next == AssetLoaded \/ Update

Spec == Init /\ [][Next]_vars

(***************************************************************************)
(* Vocabulary of the properties.                                           *)
(***************************************************************************)
KeySets == SUBSET PressableKeys

\* The TextSystem as the input handling of this frame finds it.
Seen(parsed) == load_step(Self, text_assets, parsed)

\* The step taken is a frame of `update` with these inputs.
Frame(parsed, keys) == ~panicked /\ UpdateWith(parsed, keys)

\* Input handling takes the Reading branch on an existing page.
Reading(ts) == ~ts.is_scoreboard /\ IsSome(current_page(ts))

\* Some pressed key serves a button of the page's resolved map.
SomeButtonPressed(ts, keys) ==
    LET buttons == resolved_buttons(ts, Unwrap(current_page(ts)))
    IN  \E i \in 1..Len(buttons) : button_matches(keys, buttons[i].key)

PagesOf(b) == Unwrap(b).pages

(***************************************************************************)
(* C1.  Final-page override: in Reading mode, when the active page has     *)
(* is_final and a pressed key matches one of its resolved buttons, the     *)
(* frame ends in Scoreboard mode whatever the button's action is, and      *)
(* page_index is not changed by that frame.                                *)
(***************************************************************************)
C1_FinalPageOverride ==
    [][\A parsed \in Parses, keys \in KeySets :
          (/\ Frame(parsed, keys)
           /\ Reading(Seen(parsed))
           /\ Unwrap(current_page(Seen(parsed))).is_final
           /\ SomeButtonPressed(Seen(parsed), keys))
          => (is_scoreboard' /\ page_index' = page_index /\ ~panicked')]_vars

\* The scoreboard was reached from a final page none of whose buttons is a
\* JumpToEnd: the override replaced a NextPage or a JumpToPage.
C1_Witness ==
    /\ is_scoreboard
    /\ IsSome(current_page(Self))
    /\ Unwrap(current_page(Self)).is_final
    /\ LET buttons == resolved_buttons(Self, Unwrap(current_page(Self)))
       IN  /\ \A i \in 1..Len(buttons) : buttons[i].action.type # "JumpToEnd"
           /\ \E i \in 1..Len(buttons) : buttons[i].action.type = "NextPage"
           /\ \E i \in 1..Len(buttons) : buttons[i].action.type = "JumpToPage"

(***************************************************************************)
(* C2.  Leaderboard cap, oldest evicted first: after N recorded scores the *)
(* store holds the last min(N, 10) of them, in recording order.            *)
(***************************************************************************)
C2_LeaderboardCap ==
    LET n == Len(recorded)
    IN  scores = SubSeq(recorded, (IF n > 10 THEN n - 10 ELSE 0) + 1, n)

\* More than 10 runs were recorded, and not all kept scores are equal.
C2_Witness ==
    /\ Len(recorded) > 10
    /\ \E i, j \in 1..Len(scores) : scores[i].page_read # scores[j].page_read

(***************************************************************************)
(* C3.  Retention: the store never holds more than 10 entries, neither in  *)
(* a state between frames nor between the eviction and the push of a       *)
(* record step; a full store loses its oldest entry before the push.       *)
(***************************************************************************)
C3_Retention ==
    /\ [](Len(scores) <= 10)
    /\ [][recorded' # recorded =>
            LET steps == scores_steps(scores, recorded'[Len(recorded')])
            IN  /\ \A k \in 1..Len(steps) : Len(steps[k]) <= 10
                /\ steps[Len(steps)] = scores'
                /\ Len(scores) = 10 => steps[2] = Tail(scores)]_vars

\* A full store after a record step that had to evict.
C3_Witness == Len(scores) = 10 /\ Len(recorded) > 10 /\ is_scoreboard

(***************************************************************************)
(* C4.  The score lines of the scoreboard are the store, stably sorted by  *)
(* descending page_read: a permutation of the store, non-increasing, and   *)
(* scores with equal page_read in the order they were recorded.            *)
(***************************************************************************)
PositionIn(v, x) == CHOOSE i \in 1..Len(v) : v[i] = x

C4_RankedView ==
    is_scoreboard =>
        LET rows == Unwrap(root_node).rows
        IN  /\ Len(rows) = Len(scores)
            /\ \A i \in 1..Len(scores) : \E k \in 1..Len(rows) : rows[k] = scores[i]
            /\ \A i, j \in 1..Len(rows) :
                  i < j =>
                    /\ rows[i].page_read >= rows[j].page_read
                    /\ rows[i].page_read = rows[j].page_read
                          => PositionIn(recorded, rows[i]) < PositionIn(recorded, rows[j])

\* A scoreboard whose lines are not in store order and that shows a tie.
C4_Witness ==
    /\ is_scoreboard
    /\ Unwrap(root_node).rows # scores
    /\ \E i, j \in 1..Len(scores) :
          i < j /\ scores[i].page_read = scores[j].page_read

(***************************************************************************)
(* C5.  Restart: a frame in Scoreboard mode with space pressed ends in     *)
(* Reading mode with page_index = 0 and page_read = 0; a frame in          *)
(* Scoreboard mode without space, whatever else is pressed, leaves         *)
(* page_index, page_read, is_scoreboard and the score store unchanged.     *)
(***************************************************************************)
C5_Restart ==
    [][\A parsed \in Parses, keys \in KeySets :
          (Frame(parsed, keys) /\ is_scoreboard)
          => /\ "space" \in keys
                  => (~is_scoreboard' /\ page_index' = 0 /\ page_read' = 0 /\ ~panicked')
             /\ "space" \notin keys
                  => UNCHANGED << page_index, page_read, is_scoreboard, scores >>]_vars

\* Back on page 0 with nothing read, after at least one recorded run.
C5_Witness ==
    /\ ~is_scoreboard
    /\ Len(recorded) > 0
    /\ page_index = 0
    /\ page_read = 0
    /\ root_node = Some(PageEntity(0))

(***************************************************************************)
(* C6.  Load resets state: right after the load step page_index = 0, the   *)
(* mode is Reading, page_read = 0, and current_page() is pages[0] if the   *)
(* book has a page and None if it has none.                                *)
(***************************************************************************)
C6_LoadResets ==
    [][\A parsed \in Parses, keys \in KeySets :
          (Frame(parsed, keys) /\ IsNone(book) /\ IsSome(book'))
          => LET ts == Seen(parsed)
             IN  /\ ts.book = book'
                 /\ ts.page_index = 0
                 /\ ~ts.is_scoreboard
                 /\ ts.page_read = 0
                 /\ ~ts.panicked
                 /\ current_page(ts) =
                       (IF PagesOf(book') # << >> THEN Some(PagesOf(book')[1]) ELSE None)
                 \* with no button matched the frame ends in that very state
                 /\ ~CountsPress(parsed, keys)
                       => /\ page_index' = 0 /\ page_read' = 0 /\ ~is_scoreboard'
                          /\ root_node' = ts.root_node]_vars

\* A book with pages just loaded, its first page shown and nothing read.
C6_Witness ==
    /\ IsSome(book)
    /\ PagesOf(book) # << >>
    /\ recorded = << >>
    /\ page_read = 0
    /\ page_index = 0
    /\ root_node = Some(PageEntity(0))

(***************************************************************************)
(* C7.  Unresolved jump: on a non-final page, when the action applied is   *)
(* JumpToPage(name) and no page has that name, page_index, is_scoreboard   *)
(* and the score store are unchanged and page_read grows by exactly 1.     *)
(***************************************************************************)
C7_UnresolvedJump ==
    [][\A parsed \in Parses, keys \in KeySets :
          (/\ Frame(parsed, keys)
           /\ Reading(Seen(parsed))
           /\ ~Unwrap(current_page(Seen(parsed))).is_final
           /\ IsSome(resolved_action(Seen(parsed), keys))
           /\ Unwrap(resolved_action(Seen(parsed), keys)).type = "JumpToPage"
           /\ \A i \in 1..Len(PagesOf(book')) :
                 PagesOf(book')[i].name
                    # Some(Unwrap(resolved_action(Seen(parsed), keys)).page))
          => /\ page_index' = page_index
             /\ is_scoreboard' = is_scoreboard
             /\ scores' = scores
             /\ page_read' = page_read + 1
             /\ ~panicked']_vars

\* Reading mode on an existing page with nothing spawned: only a jump that
\* did not resolve leaves the engine so.
C7_Witness ==
    /\ ~is_scoreboard
    /\ ~panicked
    /\ IsSome(current_page(Self))
    /\ root_node = None
    /\ page_read > 0

(***************************************************************************)
(* C8.  Out-of-range advance: NextPage applied on the last page of the     *)
(* book (not final) completes without a panic.                             *)
(***************************************************************************)
C8_AdvancePastEndNoPanic ==
    [][\A parsed \in Parses, keys \in KeySets :
          (/\ Frame(parsed, keys)
           /\ Reading(Seen(parsed))
           /\ ~Unwrap(current_page(Seen(parsed))).is_final
           /\ Seen(parsed).page_index = Len(PagesOf(book')) - 1
           /\ resolved_action(Seen(parsed), keys) = Some(NextPage))
          => ~panicked']_vars

(***************************************************************************)
(* C9.  Page index in range: whenever a non-empty book is loaded and the   *)
(* mode is Reading, 0 <= page_index < pages.len().                         *)
(***************************************************************************)
C9_PageIndexInRange ==
    (IsSome(book) /\ PagesOf(book) # << >> /\ ~is_scoreboard)
        => (0 <= page_index /\ page_index < Len(PagesOf(book)))

(***************************************************************************)
(* C10.  current_page() is None when no book is loaded, when page_index is *)
(* out of range, and when the mode is Scoreboard.                          *)
(***************************************************************************)
C10_CurrentPageNone ==
    (IsNone(book) \/ page_index >= Len(PagesOf(book)) \/ is_scoreboard)
        => current_page(Self) = None

\* As the code has it: None exactly when no book is loaded or page_index is
\* out of range; otherwise pages[page_index], also in Scoreboard mode, where
\* page_index is still that of the page the run ended on.
C10_CurrentPageAmended ==
    /\ IsNone(book) => current_page(Self) = None
    /\ (IsSome(book) /\ page_index >= Len(PagesOf(book))) => current_page(Self) = None
    /\ (IsSome(book) /\ page_index < Len(PagesOf(book)))
          => current_page(Self) = Some(PagesOf(book)[page_index + 1])
    /\ is_scoreboard => IsSome(current_page(Self))

\* Scoreboard mode with a current page that is not the first one.
C10_Witness ==
    is_scoreboard /\ page_index > 0 /\ IsSome(current_page(Self))

(***************************************************************************)
(* C11.  One score per completed run: the store gets a new Score exactly   *)
(* in the frames that take the engine from Reading to Scoreboard, one per  *)
(* such frame, and in no other step; its page_read is the number of frames *)
(* with a matched button since the load or the last restart, the ending    *)
(* press included.  The count is stated step by step: page_read starts at  *)
(* 0, grows by 1 in a Reading frame with a matched button, goes to 0 in a  *)
(* restart and keeps its value in every other step.                        *)
(***************************************************************************)
C11_OneScorePerRun ==
    /\ page_read = 0
    /\ [][(scores' # scores) <=> (~is_scoreboard /\ is_scoreboard')]_vars
    /\ [][scores' # scores =>
            LET new == scores'[Len(scores')]
            IN  /\ scores' = Append(IF Len(scores) = 10 THEN Tail(scores) ELSE scores, new)
                /\ \A i \in 1..Len(scores) : scores[i].date # new.date
                /\ new.page_read = page_read'
                /\ new.page_read >= 1]_vars
    /\ [][\A parsed \in Parses, keys \in KeySets :
            Frame(parsed, keys)
            => page_read' =
                  (IF is_scoreboard
                   THEN (IF "space" \in keys THEN 0 ELSE page_read)
                   ELSE IF Reading(Seen(parsed)) /\ SomeButtonPressed(Seen(parsed), keys)
                        THEN page_read + 1
                        ELSE page_read)]_vars
    /\ [][text_assets' # text_assets => page_read' = page_read]_vars

\* A run of several presses has just been recorded with its count.
C11_Witness ==
    /\ is_scoreboard
    /\ page_read >= 3
    /\ Len(scores) >= 2
    /\ scores[Len(scores)].page_read = page_read

(***************************************************************************)
(* C12.  Unmatched input changes nothing: a frame in Reading mode in which *)
(* no pressed key is a key of the active page's resolved button map leaves *)
(* page_index, page_read, is_scoreboard, the score store and the displayed *)
(* page (root_node) unchanged.                                             *)
(***************************************************************************)
C12_UnmatchedInput ==
    [][\A parsed \in Parses, keys \in KeySets :
          (/\ Frame(parsed, keys)
           /\ IsSome(book)
           /\ Reading(Self)
           /\ LET buttons == resolved_buttons(Self, Unwrap(current_page(Self)))
              IN  \A i \in 1..Len(buttons) : buttons[i].key \notin keys)
          => UNCHANGED << page_index, page_read, is_scoreboard, scores, root_node >>]_vars

\* Reading a displayed page, some presses into the run, whose button map
\* lacks one of the keys that can be pressed.
C12_Witness ==
    /\ Reading(Self)
    /\ page_read > 0
    /\ root_node = Some(PageEntity(page_index))
    /\ LET buttons == resolved_buttons(Self, Unwrap(current_page(Self)))
       IN  /\ buttons # << >>
           /\ \E k \in PressableKeys : \A i \in 1..Len(buttons) : buttons[i].key # k

(***************************************************************************)
(* C13.  First match wins: when several keys pressed in one frame match    *)
(* different entries of the active page's button map, the action applied   *)
(* is that of the first matching entry in the scan order of the map.       *)
(***************************************************************************)
\* The positions, in scan order, of the entries a pressed key matches.
MatchingEntries(buttons, keys) ==
    { i \in 1..Len(buttons) : buttons[i].key \in KeyNames /\ buttons[i].key \in keys }

MinOf(S) == CHOOSE i \in S : \A j \in S : i <= j
MaxOf(S) == CHOOSE i \in S : \A j \in S : i >= j

\* The frame left the TextSystem as applying `action` on `page` leaves it.
FrameApplied(ts, page, action) ==
    LET after == apply_action(ts, page, action)
    IN  /\ page_index' = after.page_index
        /\ page_read' = after.page_read
        /\ is_scoreboard' = after.is_scoreboard
        /\ scores' = after.scores
        /\ root_node' = after.root_node
        /\ panicked' = after.panicked

C13_FirstMatchWins ==
    [][\A parsed \in Parses, keys \in KeySets :
          (Frame(parsed, keys) /\ Reading(Seen(parsed)))
          => LET ts == Seen(parsed)
                 page == Unwrap(current_page(ts))
                 buttons == resolved_buttons(ts, page)
                 hits == MatchingEntries(buttons, keys)
             IN  Cardinality(hits) >= 2
                    => FrameApplied(ts, page, buttons[MinOf(hits)].action)]_vars

\* As the code has it: the loop has no break and every matching entry
\* overwrites `action`, so the action applied is that of the last matching
\* entry in the scan order of the map.
C13_LastMatchWins ==
    [][\A parsed \in Parses, keys \in KeySets :
          (Frame(parsed, keys) /\ Reading(Seen(parsed)))
          => LET ts == Seen(parsed)
                 page == Unwrap(current_page(ts))
                 buttons == resolved_buttons(ts, page)
                 hits == MatchingEntries(buttons, keys)
             IN  Cardinality(hits) >= 2
                    => FrameApplied(ts, page, buttons[MaxOf(hits)].action)]_vars

\* The book's default map scans "space" (NextPage) before "n" (JumpToEnd),
\* and the first page, which uses it, ended the run at the first press: the
\* outcome of pressing both keys there.
C13_Witness ==
    /\ is_scoreboard
    /\ page_index = 0
    /\ page_read = 1
    /\ IsNone(Unwrap(current_page(Self)).buttons)
    /\ LET d == Unwrap(book).default_buttons
       IN  /\ Len(d) = 2
           /\ d[1].key = "space" /\ d[1].action = NextPage
           /\ d[2].key = "n" /\ d[2].action = JumpToEnd

(***************************************************************************)
(* C14.  Mode transitions: a loaded book never becomes unloaded (nor       *)
(* changes); Scoreboard is entered only from Reading, by a frame whose     *)
(* matched action resolves to JumpToEnd (its own, or by the final-page     *)
(* override); Scoreboard is left only to Reading and only in a frame with  *)
(* space pressed; and in every Scoreboard state a frame with space pressed *)
(* re-enters Reading, so Scoreboard is never terminal.                     *)
(***************************************************************************)
C14_ModeTransitions ==
    /\ [][IsSome(book) => book' = book]_vars
    /\ [][\A parsed \in Parses, keys \in KeySets :
            (Frame(parsed, keys) /\ ~is_scoreboard /\ is_scoreboard')
            => /\ Reading(Seen(parsed))
               /\ MatchingEntries(resolved_buttons(Seen(parsed),
                                                   Unwrap(current_page(Seen(parsed)))),
                                  keys) # {}
               /\ \/ Unwrap(current_page(Seen(parsed))).is_final
                  \/ LET buttons == resolved_buttons(Seen(parsed),
                                                     Unwrap(current_page(Seen(parsed))))
                     IN  buttons[MaxOf(MatchingEntries(buttons, keys))].action
                            = JumpToEnd]_vars
    /\ [][\A parsed \in Parses, keys \in KeySets :
            (Frame(parsed, keys) /\ is_scoreboard /\ ~is_scoreboard')
            => ("space" \in keys /\ IsSome(book') /\ IsSome(current_page(Self)'))]_vars
    /\ [][text_assets' # text_assets => is_scoreboard' = is_scoreboard]_vars
    /\ [](is_scoreboard =>
            /\ ~panicked
            /\ \A keys \in KeySets :
                  "space" \in keys =>
                     LET after == update(Self, text_assets, Book(<< >>, << >>), keys)
                     IN  ~after.is_scoreboard /\ ~after.panicked
                         /\ IsSome(current_page(after)))

\* Reading again after a second visit to the scoreboard.
C14_Witness ==
    /\ ~is_scoreboard
    /\ ~panicked
    /\ Len(recorded) >= 2
    /\ root_node = Some(PageEntity(0))

(***************************************************************************)
(* C15.  Empty book: loading a book with no pages does not fail, and from  *)
(* then on, whatever is pressed, current_page() is None and page_index,    *)
(* page_read, is_scoreboard and the score store keep their initial values  *)
(* (Scoreboard is never reached, no Score is recorded).                    *)
(***************************************************************************)
C15_EmptyBookInert ==
    (IsSome(book) /\ PagesOf(book) = << >>)
        => /\ ~panicked
           /\ current_page(Self) = None
           /\ page_index = 0
           /\ page_read = 0
           /\ ~is_scoreboard
           /\ scores = << >>
           /\ recorded = << >>

\* The empty book is loaded; its default map has a button for a key that
\* can be pressed.
C15_Witness ==
    /\ IsSome(book)
    /\ PagesOf(book) = << >>
    /\ \E i \in 1..Len(Unwrap(book).default_buttons) :
          Unwrap(book).default_buttons[i].key \in PressableKeys

(***************************************************************************)
(* C16.  At most one action per frame: in Reading mode, however many       *)
(* pressed keys match buttons of the active page, page_read grows by       *)
(* exactly 1 and the frame is one application of move_next, jump_to or     *)
(* spawn_leaderboard to the TextSystem with the press already counted; a   *)
(* score recorded in that frame carries the incremented count.             *)
(***************************************************************************)
\* The frame left the TextSystem as `after`.
FrameLeaves(after) ==
    /\ page_index' = after.page_index
    /\ page_read' = after.page_read
    /\ is_scoreboard' = after.is_scoreboard
    /\ scores' = after.scores
    /\ root_node' = after.root_node
    /\ panicked' = after.panicked

C16_OneActionPerFrame ==
    [][\A parsed \in Parses, keys \in KeySets :
          (Frame(parsed, keys) /\ Reading(Seen(parsed)))
          => LET ts == Seen(parsed)
                 buttons == resolved_buttons(ts, Unwrap(current_page(ts)))
                 counted == [ts EXCEPT !.page_read = ts.page_read + 1]
             IN  MatchingEntries(buttons, keys) # {}
                    => /\ page_read' = page_read + 1
                       /\ \/ FrameLeaves(move_next(counted))
                          \/ FrameLeaves(spawn_leaderboard(counted))
                          \/ \E i \in 1..Len(buttons) :
                                /\ buttons[i].action.type = "JumpToPage"
                                /\ FrameLeaves(jump_to(counted, buttons[i].action.page))
                       /\ scores' # scores
                             => scores'[Len(scores')].page_read = page_read + 1]_vars

\* A run recorded at its first press, from a page on which two keys that
\* can be pressed together have buttons.
C16_Witness ==
    /\ is_scoreboard
    /\ page_read = 1
    /\ scores[Len(scores)].page_read = 1
    /\ Cardinality(MatchingEntries(resolved_buttons(Self, Unwrap(current_page(Self))),
                                   PressableKeys)) >= 2

(***************************************************************************)
(* C17.  Unresolved jump keeps the page displayed: when the action applied *)
(* on a non-final page is JumpToPage(name) and no page has that name, the  *)
(* frame changes no engine state other than page_read; in particular       *)
(* root_node is not cleared.                                               *)
(***************************************************************************)
C17_UnresolvedJumpKeepsPage ==
    [][\A parsed \in Parses, keys \in KeySets :
          (/\ Frame(parsed, keys)
           /\ Reading(Seen(parsed))
           /\ ~Unwrap(current_page(Seen(parsed))).is_final
           /\ IsSome(resolved_action(Seen(parsed), keys))
           /\ Unwrap(resolved_action(Seen(parsed), keys)).type = "JumpToPage"
           /\ \A i \in 1..Len(PagesOf(book')) :
                 PagesOf(book')[i].name
                    # Some(Unwrap(resolved_action(Seen(parsed), keys)).page))
          => /\ root_node' = Seen(parsed).root_node
             /\ IsSome(root_node')
             /\ page_index' = page_index
             /\ is_scoreboard' = is_scoreboard
             /\ scores' = scores
             /\ ~panicked']_vars

(***************************************************************************)
(* C18.  Button map resolution: input on a page is resolved against the    *)
(* page's own buttons when it has a map, even an empty one, and against    *)
(* the book's default_buttons only when it has none: a frame counts a      *)
(* press exactly when a pressed key is a key of that map, and a key that   *)
(* only default_buttons has does nothing on a page with its own map.       *)
(***************************************************************************)
C18_ButtonMapResolution ==
    [][\A parsed \in Parses, keys \in KeySets :
          (Frame(parsed, keys) /\ Reading(Seen(parsed)))
          => LET page == Unwrap(current_page(Seen(parsed)))
                 map == IF page.buttons # None
                        THEN page.buttons[1]
                        ELSE Unwrap(book').default_buttons
                 hit == \E i \in 1..Len(map) :
                           map[i].key \in KeyNames /\ map[i].key \in keys
             IN  /\ hit => page_read' = page_read + 1
                 /\ ~hit => FrameLeaves(Seen(parsed))]_vars

\* Reading a page whose own button map is empty, in a book whose default
\* map has buttons.
C18_Witness ==
    /\ Reading(Self)
    /\ ~panicked
    /\ Unwrap(current_page(Self)).buttons = Some(<< >>)
    /\ Unwrap(book).default_buttons # << >>
    /\ root_node = Some(PageEntity(page_index))

(***************************************************************************)
(* C19.  Jump target resolution: JumpToPage(name) applied on a non-final   *)
(* page sets page_index to the smallest index whose page has a name equal  *)
(* to `name`; unnamed pages never match, and of several pages with that    *)
(* name the lowest index wins.                                             *)
(***************************************************************************)
\* The 0-based indices of the pages that have the name `name`.
PagesNamed(pages, name) ==
    { i \in 0..(Len(pages) - 1) : pages[i + 1].name # None /\ pages[i + 1].name[1] = name }

C19_JumpTarget ==
    [][\A parsed \in Parses, keys \in KeySets :
          (/\ Frame(parsed, keys)
           /\ Reading(Seen(parsed))
           /\ ~Unwrap(current_page(Seen(parsed))).is_final
           /\ IsSome(resolved_action(Seen(parsed), keys))
           /\ Unwrap(resolved_action(Seen(parsed), keys)).type = "JumpToPage")
          => LET named == PagesNamed(PagesOf(book'),
                                     Unwrap(resolved_action(Seen(parsed), keys)).page)
             IN  named # {}
                    => /\ page_index' = MinOf(named)
                       /\ root_node' = Some(PageEntity(MinOf(named)))
                       /\ ~is_scoreboard'
                       /\ ~panicked']_vars

\* Reading the first of two pages that share a name, in a book where that
\* page can only be reached by a jump (the page before it has no NextPage).
C19_Witness ==
    /\ Reading(Self)
    /\ page_index >= 1
    /\ root_node = Some(PageEntity(page_index))
    /\ \E j \in (page_index + 1)..(Len(PagesOf(book)) - 1) :
          /\ PagesOf(book)[j + 1].name # None
          /\ PagesOf(book)[j + 1].name = PagesOf(book)[page_index + 1].name
    /\ LET before == PagesOf(book)[page_index]
       IN  /\ before.buttons # None
           /\ \A i \in 1..Len(before.buttons[1]) :
                 before.buttons[1][i].action.type = "JumpToPage"

(***************************************************************************)
(* C20.  Ranking does not disturb the store: the ranked view is a sorted   *)
(* copy, so after any number of scoreboard displays the store is still in  *)
(* recording order, and a record step on a full store removes the oldest   *)
(* recorded score and keeps the others in their order, whatever their      *)
(* rank.                                                                   *)
(***************************************************************************)
C20_RankingKeepsStore ==
    /\ [](\A i, j \in 1..Len(scores) : i < j => scores[i].date < scores[j].date)
    /\ [](is_scoreboard =>
            \A i \in 1..Len(scores) : \E k \in 1..Len(recorded) : recorded[k] = scores[i])
    /\ [][(scores' # scores /\ Len(scores) = 10) =>
            /\ \A i \in 1..Len(scores) : scores[1].date <= scores[i].date
            /\ \A k \in 1..Len(scores') : scores'[k] # scores[1]
            /\ \A i \in 2..Len(scores) : scores'[i - 1] = scores[i]]_vars

\* After an eviction, a scoreboard whose lines are in another order than
\* the store, and on which the store's oldest score is neither the top nor
\* the bottom line.
C20_Witness ==
    /\ is_scoreboard
    /\ Len(recorded) > 10
    /\ Len(scores) = 10
    /\ Unwrap(root_node).rows # scores
    /\ Unwrap(root_node).rows[1] # scores[1]
    /\ Unwrap(root_node).rows[10] # scores[1]

(***************************************************************************)
(* C21.  The book is loaded at most once: once the book is set it never    *)
(* changes, the load step of a later frame does nothing although the       *)
(* content asset is still available, so such a frame is input handling     *)
(* only; page_read goes back to 0 only in the restart from Scoreboard, and *)
(* page_index goes back to 0 only in that restart or in a jump that        *)
(* resolves to page 0.                                                     *)
(***************************************************************************)
C21_LoadedOnce ==
    /\ [][IsSome(book) => book' = book]_vars
    /\ [](IsSome(book) =>
            /\ IsSome(text_assets)
            /\ \A parsed \in ParseBook(Unwrap(text_assets)) :
                  load_step(Self, text_assets, parsed) = Self)
    /\ [][\A parsed \in Parses, keys \in KeySets :
            (Frame(parsed, keys) /\ IsSome(book))
            => /\ FrameLeaves(handle_input(Self, keys))
               /\ (page_read # 0 /\ page_read' = 0)
                     => (is_scoreboard /\ "space" \in keys)
               /\ (is_scoreboard /\ ~is_scoreboard') => "space" \in keys
               /\ (page_index # 0 /\ page_index' = 0)
                     => \/ is_scoreboard /\ "space" \in keys
                        \/ /\ Reading(Self)
                           /\ ~Unwrap(current_page(Self)).is_final
                           /\ IsSome(resolved_action(Self, keys))
                           /\ Unwrap(resolved_action(Self, keys)).type = "JumpToPage"
                           /\ 0 \in PagesNamed(PagesOf(book),
                                               Unwrap(resolved_action(Self, keys)).page)]_vars

\* Back on the first page in the middle of a run, by a jump, in a session
\* that has also restarted from the scoreboard; the asset is still there.
C21_Witness ==
    /\ IsSome(book)
    /\ IsSome(text_assets)
    /\ ~is_scoreboard
    /\ Len(recorded) >= 1
    /\ page_read >= 2
    /\ page_index = 0
    /\ root_node = Some(PageEntity(0))

(***************************************************************************)
(* C22.  The score store only changes when a run ends.  A frame in         *)
(* Scoreboard mode (restart or ignored input), a Reading frame with no     *)
(* matched button, and a Reading frame whose applied action is NextPage or *)
(* JumpToPage (resolved or not) leave the store unchanged; a frame whose   *)
(* applied action is JumpToEnd changes it; and a score leaves the store    *)
(* only as the oldest entry of a full store in such a record step.         *)
(***************************************************************************)
\* The action a Reading frame applies, after the final-page override.
AppliedAction(ts, keys) ==
    IF Unwrap(current_page(ts)).is_final
    THEN JumpToEnd
    ELSE Unwrap(resolved_action(ts, keys))

C22_StoreChangesAtRunEnd ==
    /\ [][\A parsed \in Parses, keys \in KeySets :
            Frame(parsed, keys)
            => LET ts == Seen(parsed)
               IN  /\ is_scoreboard => scores' = scores
                   /\ (~is_scoreboard /\ ~Reading(ts)) => scores' = scores
                   /\ (Reading(ts) /\ ~SomeButtonPressed(ts, keys)) => scores' = scores
                   /\ (Reading(ts) /\ SomeButtonPressed(ts, keys))
                         => IF AppliedAction(ts, keys).type \in {"NextPage", "JumpToPage"}
                            THEN scores' = scores
                            ELSE /\ scores' # scores
                                 /\ is_scoreboard']_vars
    /\ [][text_assets' # text_assets => scores' = scores]_vars
    /\ [][\A i \in 1..Len(scores) :
            (\A k \in 1..Len(scores') : scores'[k] # scores[i])
            => /\ i = 1
               /\ Len(scores) = MaxScores
               /\ ~is_scoreboard /\ is_scoreboard'
               /\ Len(recorded') = Len(recorded) + 1]_vars

\* In a later run, past the first page and right after a jump that did not
\* resolve, with the scores of the earlier runs all still in the store.
C22_Witness ==
    /\ ~is_scoreboard
    /\ ~panicked
    /\ Len(scores) >= 2
    /\ scores = recorded
    /\ page_index >= 1
    /\ page_read >= 2
    /\ root_node = None

(***************************************************************************)
(* C23.  Whenever is_scoreboard is true a book is loaded and it has at     *)
(* least one page; so the restart, which sets page_index to 0 and sets up  *)
(* pages[0] without a bounds check, never indexes an empty page list: it   *)
(* does not panic and shows page 0.                                        *)
(***************************************************************************)
C23_ScoreboardHasPages ==
    /\ [](is_scoreboard => (IsSome(book) /\ PagesOf(book) # << >>))
    /\ [][\A parsed \in Parses, keys \in KeySets :
            (Frame(parsed, keys) /\ is_scoreboard /\ "space" \in keys)
            => /\ ~panicked'
               /\ page_index' = 0
               /\ page_index' < Len(PagesOf(book'))
               /\ root_node' = Some(PageEntity(0))]_vars

\* The scoreboard of the smallest book with pages, after a restart has
\* already set its first page up again.
C23_Witness ==
    /\ is_scoreboard
    /\ Len(recorded) >= 2
    /\ IsSome(book)
    /\ Len(PagesOf(book)) = 2

(***************************************************************************)
(* C24.  A frame takes exactly one of the Scoreboard branch and the        *)
(* Reading branch, chosen by is_scoreboard as input handling finds it.  A  *)
(* frame that starts in Scoreboard mode with space pressed is the restart  *)
(* and nothing more: page 0 is shown with page_read = 0 and no score is    *)
(* recorded, also when page 0 has a button for a pressed key.  A frame     *)
(* that starts in Reading mode is one application of the matched action    *)
(* and nothing more: the frame that ends a run ends in Scoreboard mode     *)
(* with the leaderboard shown, also when space is pressed.                 *)
(***************************************************************************)
C24_OneBranchPerFrame ==
    [][\A parsed \in Parses, keys \in KeySets :
          Frame(parsed, keys)
          => LET ts == Seen(parsed)
             IN  /\ (ts.is_scoreboard /\ "space" \in keys)
                       => /\ ~is_scoreboard'
                          /\ page_read' = 0
                          /\ page_index' = 0
                          /\ root_node' = Some(PageEntity(0))
                          /\ scores' = scores
                          /\ recorded' = recorded
                 /\ (ts.is_scoreboard /\ "space" \notin keys) => FrameLeaves(ts)
                 /\ (Reading(ts) /\ SomeButtonPressed(ts, keys))
                       => /\ FrameLeaves(apply_action(ts, Unwrap(current_page(ts)),
                                                      Unwrap(resolved_action(ts, keys))))
                          /\ AppliedAction(ts, keys) = JumpToEnd
                                => /\ is_scoreboard'
                                   /\ page_read' = page_read + 1
                                   /\ page_index' = ts.page_index
                                   /\ Len(recorded') = Len(recorded) + 1
                                   /\ Unwrap(root_node').kind = "leaderboard"]_vars

\* The scoreboard, in a session that has restarted before, reached from a
\* page that has a space button, in a book whose first page has one too: a
\* space press ended this run, and a space press restarted the session.
C24_Witness ==
    /\ is_scoreboard
    /\ Len(recorded) >= 2
    /\ page_index >= 1
    /\ Unwrap(root_node).kind = "leaderboard"
    /\ \E i \in 1..Len(resolved_buttons(Self, PagesOf(book)[1])) :
          resolved_buttons(Self, PagesOf(book)[1])[i].key = "space"
    /\ LET buttons == resolved_buttons(Self, Unwrap(current_page(Self)))
       IN  \A i \in 1..Len(buttons) : buttons[i].key = "space"

====
